---- MODULE Spec2Model ----
\* A preprocessor pass over patches/ios/rct-folly/Expected.h:
\*
\*   1  // Patch: guard coroutine include when FOLLY_HAS_COROUTINES is undefined or false
\*   2  // Source: Pods/Headers/Public/RCT-Folly/folly/Expected.h (modified)
\*   3
\*   4  #if defined(FOLLY_HAS_COROUTINES) && FOLLY_HAS_COROUTINES
\*   5  #include <folly/coro/Coroutine.h>
\*   6  #endif
\*
\* The state is the preprocessor's: the line it is at, its macro table, its
\* stack of open conditional groups, the operands of the #if expression it has
\* evaluated, the include directives it has processed and the diagnostics it
\* has emitted. The environment (the macro table at the point of inclusion,
\* whether the toolchain warns about undefined identifiers evaluated in #if,
\* and whether the coroutine header can be found and compiled) is chosen by
\* Init.
EXTENDS Integers, Sequences, FiniteSets

\* Integer values a macro is given range over -MaxVal..MaxVal.
MaxVal == 2

\* The last line of the file; the pass is over when pc = Done.
LastLine == 6
Done == LastLine + 1

\* The macro the guard of line 4 tests.
FeatureMacro == "FOLLY_HAS_COROUTINES"

\* Another macro of the environment, which the file never names.
OtherMacro == "__cpp_impl_coroutine"

MacroNames == {FeatureMacro, OtherMacro}

\* What a macro name can stand for at the point of inclusion: nothing (not
\* defined), an integer literal, or a replacement list that is no integer
\* constant expression (empty, a string, a floating literal, ...).
Undefined == [kind |-> "undef", val |-> 0]
NonInteger == [kind |-> "nonint", val |-> 0]
IntLiteral(v) == [kind |-> "int", val |-> v]
MacroValues == {Undefined, NonInteger} \cup {IntLiteral(v) : v \in (0 - MaxVal)..MaxVal}

\* Whether <folly/coro/Coroutine.h> is on the include path and compiles.
HeaderStates == {"ok", "missing", "uncompilable"}

\* Diagnostics of the directives of the file, and of the included header.
GuardDiags == {"undefined-identifier-in-if", "invalid-if-expression", "extra-tokens-after-endif"}
HeaderDiags == {"header-not-found", "header-does-not-compile"}

VARIABLES pc, macros, wundef, coroHeader, ifStack, evaluated, includes, diags

vars == <<pc, macros, wundef, coroHeader, ifStack, evaluated, includes, diags>>

TypeOK ==
    /\ pc \in 1..Done
    /\ macros \in [MacroNames -> MacroValues]
    /\ wundef \in BOOLEAN
    /\ coroHeader \in HeaderStates
    /\ ifStack \in Seq(BOOLEAN)
    /\ evaluated \subseteq {"defined", "value"}
    /\ includes \in Seq(STRING)
    /\ diags \subseteq (GuardDiags \cup HeaderDiags)

Init ==
    /\ pc = 1
    /\ macros \in [MacroNames -> MacroValues]
    /\ wundef \in BOOLEAN
    /\ coroHeader \in HeaderStates
    /\ ifStack = <<>>
    /\ evaluated = {}
    /\ includes = <<>>
    /\ diags = {}

\* Text is kept (and directives obeyed) when every open group was taken.
Active == \A i \in 1..Len(ifStack) : ifStack[i]

\* Line 4, left operand: defined(FOLLY_HAS_COROUTINES).
DefinedTest(env) == env[FeatureMacro].kind # "undef"

\* Line 4, right operand: FOLLY_HAS_COROUTINES evaluated as an #if operand.
\* The possible results, each with the diagnostics the evaluation emits. An
\* identifier that is no macro evaluates to 0, with a warning from a toolchain
\* that warns about it; what a replacement list that is no integer constant
\* expression does is up to the implementation.
ValueTest(env, warnUndef) ==
    CASE env[FeatureMacro].kind = "int" ->
           {[nonzero |-> env[FeatureMacro].val # 0, diags |-> {}]}
      [] env[FeatureMacro].kind = "undef" ->
           {[nonzero |-> FALSE,
             diags |-> IF warnUndef THEN {"undefined-identifier-in-if"} ELSE {}]}
      [] OTHER ->
           {[nonzero |-> b, diags |-> d] :
              b \in BOOLEAN, d \in {{}, {"invalid-if-expression"}}}

\* #if FOLLY_HAS_COROUTINES: the value test without the defined() check.
GuardOutcomes_NoDefinedCheck(env, warnUndef) ==
    {[taken |-> r.nonzero, evaluated |-> {"value"}, diags |-> r.diags] :
       r \in ValueTest(env, warnUndef)}

\* #if defined(FOLLY_HAS_COROUTINES): the defined() check without the value test.
GuardOutcomes_DefinedOnly(env, warnUndef) ==
    {[taken |-> DefinedTest(env), evaluated |-> {"defined"}, diags |-> {}]}

\* #if defined(FOLLY_HAS_COROUTINES) && FOLLY_HAS_COROUTINES == 1
GuardOutcomes_EqualsOne(env, warnUndef) ==
    IF DefinedTest(env)
    THEN {[taken |-> r.nonzero /\ env[FeatureMacro] = IntLiteral(1),
           evaluated |-> {"defined", "value"}, diags |-> r.diags] :
            r \in ValueTest(env, warnUndef)}
    ELSE {[taken |-> FALSE, evaluated |-> {"defined"}, diags |-> {}]}

\* #if defined(FOLLY_HAS_COROUTINES) && FOLLY_HAS_COROUTINES && defined(__cpp_impl_coroutine)
GuardOutcomes_AndOtherMacro(env, warnUndef) ==
    IF DefinedTest(env)
    THEN {[taken |-> r.nonzero /\ env[OtherMacro].kind # "undef",
           evaluated |-> {"defined", "value"}, diags |-> r.diags] :
            r \in ValueTest(env, warnUndef)}
    ELSE {[taken |-> FALSE, evaluated |-> {"defined"}, diags |-> {}]}

\* Line 4, the whole controlling expression: defined(...) && value. The right
\* operand of && is evaluated only when the left one is true.
GuardOutcomes(env, warnUndef) ==
    IF DefinedTest(env)
    THEN {[taken |-> r.nonzero, evaluated |-> {"defined", "value"}, diags |-> r.diags] :
            r \in ValueTest(env, warnUndef)}
    ELSE {[taken |-> FALSE, evaluated |-> {"defined"}, diags |-> {}]}

\* #include <folly/experimental/coro/Coroutine.h>: the header's older place.
IncludeTarget_Experimental == "folly/experimental/coro/Coroutine.h"

\* Line 5: the header named by the include directive.
IncludeTarget == "folly/coro/Coroutine.h"

\* What including the coroutine header makes the compiler report.
HeaderFailure(h) ==
    CASE h = "missing" -> {"header-not-found"}
      [] h = "uncompilable" -> {"header-does-not-compile"}
      [] OTHER -> {}

\* Lines 1-3: two comments and a blank line; nothing for the preprocessor.
TextLine ==
    /\ pc \in 1..3
    /\ pc' = pc + 1
    /\ UNCHANGED <<macros, wundef, coroHeader, ifStack, evaluated, includes, diags>>

\* Line 4: #if defined(FOLLY_HAS_COROUTINES) && FOLLY_HAS_COROUTINES
IfDirective ==
    /\ pc = 4
    /\ \E r \in GuardOutcomes(macros, wundef) :
         /\ ifStack' = Append(ifStack, r.taken)
         /\ evaluated' = r.evaluated
         /\ diags' = diags \cup r.diags
    /\ pc' = pc + 1
    /\ UNCHANGED <<macros, wundef, coroHeader, includes>>

\* Line 5 written twice.
IncludeDirective_Twice ==
    /\ pc = 5
    /\ IF Active
       THEN /\ includes' = includes \o <<IncludeTarget, IncludeTarget>>
            /\ diags' = diags \cup HeaderFailure(coroHeader)
       ELSE UNCHANGED <<includes, diags>>
    /\ pc' = pc + 1
    /\ UNCHANGED <<macros, wundef, coroHeader, ifStack, evaluated>>

\* Line 5 under __has_include: a header that is not there is passed over in silence.
IncludeDirective_IfPresent ==
    /\ pc = 5
    /\ IF Active /\ coroHeader # "missing"
       THEN /\ includes' = Append(includes, IncludeTarget)
            /\ diags' = diags \cup HeaderFailure(coroHeader)
       ELSE UNCHANGED <<includes, diags>>
    /\ pc' = pc + 1
    /\ UNCHANGED <<macros, wundef, coroHeader, ifStack, evaluated>>

\* Line 5: #include <folly/coro/Coroutine.h>, obeyed in a taken group only.
IncludeDirective ==
    /\ pc = 5
    /\ IF Active
       THEN /\ includes' = Append(includes, IncludeTarget)
            /\ diags' = diags \cup HeaderFailure(coroHeader)
       ELSE UNCHANGED <<includes, diags>>
    /\ pc' = pc + 1
    /\ UNCHANGED <<macros, wundef, coroHeader, ifStack, evaluated>>

\* Line 6 followed by #undef FOLLY_HAS_COROUTINES.
EndifDirective_ThenUndef ==
    /\ pc = LastLine
    /\ Len(ifStack) > 0
    /\ ifStack' = SubSeq(ifStack, 1, Len(ifStack) - 1)
    /\ macros' = [macros EXCEPT ![FeatureMacro] = Undefined]
    /\ pc' = pc + 1
    /\ UNCHANGED <<wundef, coroHeader, evaluated, includes, diags>>

\* Line 6 written #endif FOLLY_HAS_COROUTINES.
EndifDirective_ExtraTokens ==
    /\ pc = LastLine
    /\ Len(ifStack) > 0
    /\ ifStack' = SubSeq(ifStack, 1, Len(ifStack) - 1)
    /\ diags' = diags \cup {"extra-tokens-after-endif"}
    /\ pc' = pc + 1
    /\ UNCHANGED <<macros, wundef, coroHeader, evaluated, includes>>

\* Line 6: #endif closes the group line 4 opened.
EndifDirective ==
    /\ pc = LastLine
    /\ Len(ifStack) > 0
    /\ ifStack' = SubSeq(ifStack, 1, Len(ifStack) - 1)
    /\ pc' = pc + 1
    /\ UNCHANGED <<macros, wundef, coroHeader, evaluated, includes, diags>>

Next ==
    \/ TextLine
    \/ IfDirective
    \/ IncludeDirective
    \/ EndifDirective

Spec == Init /\ [][Next]_vars

\* ---------------------------------------------------------------------
\* Properties of the guard.

\* The state of the feature macro, as the guard sees it.
FeatureUndefined == macros[FeatureMacro].kind = "undef"
FeatureZero == macros[FeatureMacro].kind = "int" /\ macros[FeatureMacro].val = 0
FeatureNonzero == macros[FeatureMacro].kind = "int" /\ macros[FeatureMacro].val # 0
FeatureTriState == FeatureUndefined \/ FeatureZero \/ FeatureNonzero
Included == Len(includes) > 0

\* C1: with the feature macro undefined, defined to zero or defined to a
\* nonzero integer (1 or any other), the coroutine header is included if and
\* only if the macro is defined and nonzero: nothing is included before line 5
\* is processed, and once it is, the header is included exactly in the
\* defined-and-nonzero state.
C1_IncludedIffDefinedNonzero ==
    FeatureTriState =>
        /\ pc <= 5 => ~Included
        /\ pc > 5 => (Included <=> FeatureNonzero)

C1_Witness ==
    /\ pc = Done
    /\ macros[FeatureMacro] = IntLiteral(2)
    /\ includes = <<IncludeTarget>>

\* C2: with the feature macro undefined, the value test of line 4 is never
\* evaluated (only the defined() check is), no diagnostic is emitted, even by
\* a toolchain that warns about undefined identifiers in #if, and the header
\* is omitted.
C2_UndefinedShortCircuits ==
    FeatureUndefined =>
        /\ "value" \notin evaluated
        /\ pc > 4 => evaluated = {"defined"}
        /\ diags = {}
        /\ ~Included

C2_Witness ==
    /\ pc = Done
    /\ FeatureUndefined
    /\ wundef
    /\ evaluated = {"defined"}
    /\ diags = {}

\* C3: with the feature macro undefined or defined to 0, the coroutine header
\* is never referenced, so the pass ends without a diagnostic even when the
\* header is missing or does not compile.
C3_OffNeverReferencesHeader ==
    (FeatureUndefined \/ FeatureZero) =>
        /\ includes = <<>>
        /\ diags \cap HeaderDiags = {}
        /\ pc = Done => diags = {}

C3_Witness ==
    /\ pc = Done
    /\ FeatureZero
    /\ coroHeader = "uncompilable"
    /\ includes = <<>>
    /\ diags = {}

\* C4: with the feature macro undefined, defined to 0 or defined to 1, the
\* directives of the file emit no diagnostic of their own, and when the
\* coroutine header is there and compiles no diagnostic is emitted at all.
C4_NoDiagnosticInThreeConfigurations ==
    macros[FeatureMacro] \in {Undefined, IntLiteral(0), IntLiteral(1)} =>
        /\ diags \cap GuardDiags = {}
        /\ coroHeader = "ok" => diags = {}

C4_Witness ==
    /\ pc = Done
    /\ macros[FeatureMacro] = IntLiteral(1)
    /\ coroHeader = "ok"
    /\ wundef
    /\ Included
    /\ diags = {}

\* C5: no step of the pass changes the macro table: no macro is defined and
\* none is undefined, so FOLLY_HAS_COROUTINES after the guard is what it was
\* before it.
C5_MacroTableUnchanged == [][macros' = macros]_vars

C5_Witness ==
    /\ pc = Done
    /\ macros[FeatureMacro] = IntLiteral(1)
    /\ macros[OtherMacro] = IntLiteral(1)
    /\ ifStack = <<>>

\* C6: one pass over the file includes the coroutine header at most once,
\* whatever the feature macro stands for.
C6_AtMostOneInclusion == Len(includes) <= 1

C6_Witness ==
    /\ pc = Done
    /\ macros[FeatureMacro].kind = "nonint"
    /\ Len(includes) = 1

\* C7: at the end of the pass, with the feature macro defined and nonzero a
\* header that is missing or does not compile has produced its diagnostic;
\* with the macro undefined or zero there is no header diagnostic; and the
\* diagnostics are those of the included header and nothing else: none from
\* the directives, none when nothing was included, none when the header is
\* sound.
C7_DiagnosticsFollowIncludeDecision ==
    (pc = Done /\ FeatureTriState) =>
        /\ (FeatureNonzero /\ coroHeader = "missing") => "header-not-found" \in diags
        /\ (FeatureNonzero /\ coroHeader = "uncompilable") =>
               "header-does-not-compile" \in diags
        /\ ~FeatureNonzero => diags \cap HeaderDiags = {}
        /\ diags \subseteq HeaderDiags
        /\ ~Included => diags = {}
        /\ coroHeader = "ok" => diags = {}

C7_Witness ==
    /\ pc = Done
    /\ macros[FeatureMacro] = IntLiteral(0 - 2)
    /\ coroHeader = "missing"
    /\ diags = {"header-not-found"}

\* C8: every header the pass includes is folly/coro/Coroutine.h, whatever the
\* macro table and the rest of the environment are.
C8_FixedIncludeTarget ==
    \A i \in 1..Len(includes) : includes[i] = "folly/coro/Coroutine.h"

C8_Witness ==
    /\ pc = Done
    /\ macros[FeatureMacro] = IntLiteral(1)
    /\ macros[OtherMacro] = NonInteger
    /\ coroHeader = "uncompilable"
    /\ includes = <<"folly/coro/Coroutine.h">>

\* C9: the include/omit decision depends on the state of the feature macro
\* alone: the decision this pass has made is the decision the guard makes in
\* every environment that gives FOLLY_HAS_COROUTINES the same state, whatever
\* it gives the other macros and the toolchain's warning setting.
C9_DecisionDependsOnFeatureMacroOnly ==
    (pc > 5 /\ FeatureTriState) =>
        \A env \in [MacroNames -> MacroValues] :
            env[FeatureMacro] = macros[FeatureMacro] =>
                \A w \in BOOLEAN :
                    \A r \in GuardOutcomes(env, w) : r.taken = Included

C9_Witness ==
    /\ pc = Done
    /\ macros[FeatureMacro] = IntLiteral(1)
    /\ macros[OtherMacro] = Undefined
    /\ ~wundef
    /\ Included

====
